---- MODULE Spec2Model ----
(***************************************************************************)
(* The statement parser: the generic driving engine                        *)
(* (createParserStateMachine), its option layering, its starting output,   *)
(* and the orchestrating parse call (createStatementParser).               *)
(*                                                                         *)
(* JavaScript objects and arrays live on two heaps (objs, arrs) and are    *)
(* referred to by address, so that in-place mutation and aliasing are      *)
(* visible.  A parse call is asynchronous up to the line source and        *)
(* synchronous after it: `active` is the call that owns the JavaScript     *)
(* stack, and a call in its synchronous phase runs to completion before    *)
(* any other call takes a step.                                            *)
(***************************************************************************)
EXTENDS Integers, Sequences, FiniteSets, TLC

\* ------------------------------------------------------------------ bounds

\* Longest flattened line sequence the line source yields (single call).
MaxLen == 3

\* Longest flattened line sequence when two parse calls run concurrently.
MaxLenConc == 2

\* The longest document of the edge-case specification, in lines.
MaxLenEdge == 2

\* The most lines that follow the opening of a PayPal statement.
MaxLenPaypal == 3

\* ------------------------------------------------------- JavaScript values

Num(n) == [t |-> "num", n |-> n]

Str(s) == [t |-> "str", s |-> s]

Undef == [t |-> "undefined"]

Arr(a) == [t |-> "arr", a |-> a]

Date(d) == [t |-> "date", d |-> d]

IsUndef(v) == "t" \in DOMAIN v /\ v.t = "undefined"

\* The empty object literal {}.
EmptyObject == [k \in {} |-> Undef]

\* Object spread {...a, ...b}: every own key of b, also one whose value is
\* undefined, replaces the key of a.
Spread(a, b) ==
    [k \in (DOMAIN a) \cup (DOMAIN b) |-> IF k \in DOMAIN b THEN b[k] ELSE a[k]]

\* !v for the values an accountSuffix takes: the empty string and undefined
\* are falsy.
Falsy(v) == v.t = "undefined" \/ (v.t = "str" /\ v.s = "")

\* ----------------------------------------------------------------- options

\* The base option set: yearPrefix only.
baseParserOptions == [yearPrefix |-> Num(20)]

\* collapseDefaultParserOptions: the base defaults overlaid with the format's
\* defaults when it has any.
collapseDefaultParserOptions(defaultParserOptions) ==
    Spread(baseParserOptions,
           IF IsUndef(defaultParserOptions) THEN EmptyObject
           ELSE defaultParserOptions)

\* const parserOptions = {...defaultOptions, ...(inputParserOptions ?? {})}
ResolveParserOptions(defaultParserOptions, inputParserOptions) ==
    Spread(collapseDefaultParserOptions(defaultParserOptions),
           IF IsUndef(inputParserOptions) THEN EmptyObject ELSE inputParserOptions)

\* The option sets a caller passes as inputParserOptions: none, a value, and
\* a key that is present with the value undefined.
CallerOptions == {Undef, [yearPrefix |-> Num(18)], [yearPrefix |-> Undef]}

\* ---------------------------------------------------------------- the heap

\* The transaction the format definition's fragment array starts with.
Tx0 == [text |-> "opening", n |-> 0]

\* Address of the array the format definition's initOutput fragment holds.
FragmentArray == 1

\* The file path a fragment may carry.
FragmentPath == "fixture.pdf"

\* JSON.parse(JSON.stringify(v)) of one field value whose arrays have been
\* copied already: a Date comes back as its ISO string.
JsonValue(v) == IF v.t = "date" THEN Str(v.d) ELSE v

\* JSON.parse(JSON.stringify(fragment)): keys whose value is undefined are
\* dropped, dates become strings, and every nested array is rebuilt as a new
\* array.  Returns the copy and the heap of arrays after the allocations.
JsonRoundTrip(fragment, ar) ==
    LET keys == {k \in DOMAIN fragment : fragment[k].t # "undefined"}
        hasInc == "incomes" \in keys /\ fragment["incomes"].t = "arr"
        hasExp == "expenses" \in keys /\ fragment["expenses"].t = "arr"
        ar1 == IF hasInc THEN Append(ar, ar[fragment["incomes"].a]) ELSE ar
        ar2 == IF hasExp THEN Append(ar1, ar1[fragment["expenses"].a]) ELSE ar1
        copy == [k \in keys |->
                   IF k = "incomes" /\ hasInc THEN Arr(Len(ar1))
                   ELSE IF k = "expenses" /\ hasExp THEN Arr(Len(ar2))
                   ELSE JsonValue(fragment[k])]
    IN [obj |-> copy, arrs |-> ar2]

\* A copy that spreads the fragment without the JSON round trip: nested
\* arrays stay shared with the format definition.
ShallowFragment(fragment, ar) == [obj |-> fragment, arrs |-> ar]

\* The copy of the fragment that is overlaid on the scaffold (line 101).
CopyFragment(fragment, ar) == JsonRoundTrip(fragment, ar)

\* ------------------------------------------------------ format definitions

\* The states the format definitions below declare.
States == {"header", "body", "end"}

\* The lines the line source yields: "acct" carries the account identifier,
\* "go" opens the activity section, "inc" and "exp" are an income and an
\* expense transaction, "end" is the closing line, and "abad" / "nbad" are
\* lines the action / the transition function throws on.
Lines == {"acct", "go", "inc", "exp", "end", "abad", "nbad"}

\* The lines of the documents parsed concurrently.
LinesConc == {"inc", "exp", "end", "abad"}

\* A header-first layout with no fragment and an action that mutates the
\* output it is given (the shape of the PayPal definition).
FmtPlain ==
    [initialState |-> "header", endState |-> "end", initOutput |-> Undef,
     defaultParserOptions |-> Undef, style |-> "mutate",
     outputValidation |-> FALSE, pdfProcessing |-> "default"]

\* A layout that starts in the activity section, with a fragment holding an
\* account suffix, an opening transaction and a start date, format defaults,
\* an action that returns new values, and an output validator.
FmtFragment ==
    [initialState |-> "body", endState |-> "end",
     initOutput |-> [accountSuffix |-> Str("9999"), incomes |-> Arr(FragmentArray),
                     startDate |-> Date("2021-01-01")],
     defaultParserOptions |-> [yearPrefix |-> Num(19)], style |-> "functional",
     outputValidation |-> TRUE, pdfProcessing |-> "custom"]

\* The same fragment with an action that mutates the output it is given.
FmtFragmentMutate ==
    [initialState |-> "body", endState |-> "end",
     initOutput |-> [accountSuffix |-> Str("9999"), incomes |-> Arr(FragmentArray)],
     defaultParserOptions |-> Undef, style |-> "mutate",
     outputValidation |-> FALSE, pdfProcessing |-> "custom"]

\* A fragment that carries its own filePath and an undefined accountSuffix.
FmtPath ==
    [initialState |-> "header", endState |-> "end",
     initOutput |-> [filePath |-> Str(FragmentPath), accountSuffix |-> Undef],
     defaultParserOptions |-> Undef, style |-> "functional",
     outputValidation |-> FALSE, pdfProcessing |-> "default"]

\* The declared initial state is the declared terminal state.
FmtDegenerate ==
    [initialState |-> "end", endState |-> "end",
     initOutput |-> [accountSuffix |-> Str("9999")],
     defaultParserOptions |-> Undef, style |-> "functional",
     outputValidation |-> FALSE, pdfProcessing |-> "default"]

\* The terminal state is the activity section: lines may follow it.
FmtEarlyEnd ==
    [initialState |-> "header", endState |-> "body", initOutput |-> Undef,
     defaultParserOptions |-> [yearPrefix |-> Num(19)], style |-> "functional",
     outputValidation |-> FALSE, pdfProcessing |-> "custom"]

\* rawInputs names pdfProcessing with the value undefined.
FmtNoSource ==
    [initialState |-> "header", endState |-> "end", initOutput |-> Undef,
     defaultParserOptions |-> Undef, style |-> "mutate",
     outputValidation |-> FALSE, pdfProcessing |-> "undefined"]

\* Initial state = terminal state and no fragment at all.
FmtDegenerateBare ==
    [initialState |-> "end", endState |-> "end", initOutput |-> Undef,
     defaultParserOptions |-> Undef, style |-> "mutate",
     outputValidation |-> FALSE, pdfProcessing |-> "default"]

\* Initial state = terminal state, an account suffix in the fragment, and an
\* output validator.
FmtDegenerateValidated ==
    [initialState |-> "end", endState |-> "end",
     initOutput |-> [accountSuffix |-> Str("9999")],
     defaultParserOptions |-> Undef, style |-> "functional",
     outputValidation |-> TRUE, pdfProcessing |-> "custom"]

\* A format whose ParserOptions type introduces the field dayFirst next to
\* yearPrefix, and whose defaultParserOptions holds no value for it.
FmtMissingDefault ==
    [initialState |-> "header", endState |-> "end", initOutput |-> Undef,
     defaultParserOptions |-> [yearPrefix |-> Num(19)], style |-> "functional",
     outputValidation |-> FALSE, pdfProcessing |-> "default",
     optionFields |-> {"yearPrefix", "dayFirst"}]

Formats ==
    {FmtPlain, FmtFragment, FmtFragmentMutate, FmtPath, FmtDegenerate,
     FmtEarlyEnd, FmtNoSource}

\* The format definitions of the edge cases: fragments, degenerate state
\* sets, a missing line source, a missing default.
FormatsEdge ==
    {FmtFragment, FmtPath, FmtDegenerate, FmtDegenerateBare,
     FmtDegenerateValidated, FmtNoSource, FmtMissingDefault, FmtPlain}

\* The format definitions shared by concurrent parse calls.
FormatsConc == {FmtFragment, FmtFragmentMutate, FmtPlain}

\* -------------------------------------------- the PayPal format definition

\* The lines of PayPal statements.
BrandLine == "PayPal"
StatementLine == "statement period"
PeriodLine == "Jan 1, 2021 - Jan 31, 2021 1234"
ActivityHeaderLine == "Date Description Currency Amount Fees Total"
BlankLine == ""
ExpenseLine == "1/5/2021 Coffee Shop USD -4.50 0.00 -4.50"
IncomeLine == "1/6/2021 Refund USD 10.00 -0.59 9.41"
MixedLine == "1/7/2021 Sale USD 1.00 -1.30 -0.30"
NoteLine == "ID: 5XY"
PageLine == "Page 2"
NotifyLine == "you must notify us no later than 60 days"
NotifyTitleLine == "You Must Notify Us No Later Than 60 days"

\* line.toLowerCase()
ToLowerCase(line) ==
    CASE line = BrandLine -> "paypal"
      [] line = PeriodLine -> "jan 1, 2021 - jan 31, 2021 1234"
      [] line = ActivityHeaderLine -> "date description currency amount fees total"
      [] line = ExpenseLine -> "1/5/2021 coffee shop usd -4.50 0.00 -4.50"
      [] line = IncomeLine -> "1/6/2021 refund usd 10.00 -0.59 9.41"
      [] line = MixedLine -> "1/7/2021 sale usd 1.00 -1.30 -0.30"
      [] line = NoteLine -> "id: 5xy"
      [] line = PageLine -> "page 2"
      [] line = NotifyTitleLine -> "you must notify us no later than 60 days"
      [] OTHER -> line

\* line.includes(ParsingTriggers.MustNotify): a case-sensitive search.
IncludesMustNotify(line) == line = "you must notify us no later than 60 days"

\* line.includes(ParsingTriggers.Statement)
IncludesStatement(line) == line = "statement period"

\* line.match(activityHeader): the expression ignores case.
MatchesActivityHeader(line) ==
    line \in {"Date Description Currency Amount Fees Total",
              "date description currency amount fees total"}

\* line.match(pageEndRegExp): the expression ignores case.
MatchesPageEnd(line) == line \in {"Page 2", "page 2"}

\* The value of a match that failed.
NoMatch == [matched |-> FALSE]

\* line.match(headerDataLineRegExp): start date, end date, account id.
HeaderDataMatch(line) ==
    IF line = PeriodLine
    THEN [matched |-> TRUE, startDate |-> "Jan 1, 2021", endDate |-> "Jan 31, 2021",
          accountId |-> "1234"]
    ELSE NoMatch

\* line.match(transactionStartRegExp), which ignores case: date, description,
\* amount, fees, total.
TransactionMatch(line) ==
    CASE line = ExpenseLine ->
           [matched |-> TRUE, date |-> "1/5/2021", description |-> "Coffee Shop ",
            amount |-> "-4.50", fees |-> "0.00", total |-> "-4.50"]
      [] line = ToLowerCase(ExpenseLine) ->
           [matched |-> TRUE, date |-> "1/5/2021", description |-> "coffee shop ",
            amount |-> "-4.50", fees |-> "0.00", total |-> "-4.50"]
      [] line = IncomeLine ->
           [matched |-> TRUE, date |-> "1/6/2021", description |-> "Refund ",
            amount |-> "10.00", fees |-> "-0.59", total |-> "9.41"]
      [] line = ToLowerCase(IncomeLine) ->
           [matched |-> TRUE, date |-> "1/6/2021", description |-> "refund ",
            amount |-> "10.00", fees |-> "-0.59", total |-> "9.41"]
      [] line = MixedLine ->
           [matched |-> TRUE, date |-> "1/7/2021", description |-> "Sale ",
            amount |-> "1.00", fees |-> "-1.30", total |-> "-0.30"]
      [] line = ToLowerCase(MixedLine) ->
           [matched |-> TRUE, date |-> "1/7/2021", description |-> "sale ",
            amount |-> "1.00", fees |-> "-1.30", total |-> "-0.30"]
      [] OTHER -> NoMatch

\* Number(sanitizeNumberString(s)), in cents.
NumberOf(s) ==
    CASE s = "-4.50" -> -450
      [] s = "0.00" -> 0
      [] s = "10.00" -> 1000
      [] s = "-0.59" -> -59
      [] s = "9.41" -> 941
      [] s = "1.00" -> 100
      [] s = "-1.30" -> -130
      [] s = "-0.30" -> -30

\* Math.abs
Abs(n) == IF n < 0 THEN -n ELSE n

\* dateFromNamedCommaFormat
dateFromNamedCommaFormat(s) ==
    CASE s = "Jan 1, 2021" -> "2021-01-01"
      [] s = "Jan 31, 2021" -> "2021-01-31"

\* dateFromSlashFormat
dateFromSlashFormat(s) ==
    CASE s = "1/5/2021" -> "2021-01-05"
      [] s = "1/6/2021" -> "2021-01-06"
      [] s = "1/7/2021" -> "2021-01-07"

\* collapseSpaces: runs of white space become one space, the ends are
\* trimmed.
collapseSpaces(s) ==
    CASE s = "Coffee Shop " -> "Coffee Shop"
      [] s = "Refund " -> "Refund"
      [] s = "Sale " -> "Sale"
      [] OTHER -> s

\* A list that takes every transaction as an income.
ListAlwaysIncomes(amount) == "incomes"

\* amount < 0 ? output.expenses : output.incomes (line 70)
ListFor(amount) == IF amount < 0 THEN "expenses" ELSE "incomes"

\* The description grows by '\n' + collapseSpaces(line) and the line joins
\* originalText (lines 76-77 and 80-81); a description is the sequence of
\* its lines.
Continued(tx, line) ==
    [tx EXCEPT !.description = Append(@, collapseSpaces(line)),
               !.originalText = Append(@, line)]

\* performStateAction(currentState, line, output): it writes into the output
\* object and the lists it was given and returns that same object.  With no
\* last transaction to continue, reading lastExpense.description throws.
performStateAction(currentState, line, out, ob, ar) ==
    LET o == ob[out]
        header == HeaderDataMatch(line)
        match == TransactionMatch(line)
        list == IF currentState = "expense-inside" THEN o["expenses"].a
                ELSE o["incomes"].a
        same == [threw |-> FALSE, objs |-> ob, arrs |-> ar, out |-> out]
    IN IF currentState = "header-data" /\ Falsy(o["startDate"])
       THEN IF header.matched
            THEN [threw |-> FALSE,
                  objs |-> [ob EXCEPT ![out] =
                      [o EXCEPT !["startDate"] =
                                    Date(dateFromNamedCommaFormat(header.startDate)),
                                !["endDate"] =
                                    Date(dateFromNamedCommaFormat(header.endDate)),
                                !["accountSuffix"] = Str(header.accountId)]],
                  arrs |-> ar, out |-> out]
            ELSE same
       ELSE IF currentState = "activity"
       THEN IF match.matched
            THEN LET amount == NumberOf(match.amount)
                     newTransaction ==
                         [date |-> dateFromSlashFormat(match.date),
                          description |-> <<collapseSpaces(match.description)>>,
                          amount |-> Abs(NumberOf(match.total)),
                          fees |-> Abs(NumberOf(match.fees)),
                          baseAmount |-> Abs(amount),
                          originalText |-> <<line>>]
                 IN [threw |-> FALSE, objs |-> ob,
                     arrs |-> [ar EXCEPT ![o[ListFor(amount)].a] =
                                             Append(@, newTransaction)],
                     out |-> out]
            ELSE same
       ELSE IF currentState \in {"expense-inside", "income-inside"} /\ line # ""
       THEN IF ar[list] = <<>>
            THEN [threw |-> TRUE, objs |-> ob, arrs |-> ar, out |-> out]
            ELSE [threw |-> FALSE, objs |-> ob,
                  arrs |-> [ar EXCEPT ![list] =
                               [ar[list] EXCEPT ![Len(ar[list])] =
                                   Continued(ar[list][Len(ar[list])], line)]],
                  out |-> out]
       ELSE same

\* nextState(currentState, line)
nextState(currentState, rawLine) ==
    LET line == ToLowerCase(rawLine)
        match == TransactionMatch(line)
    IN IF IncludesMustNotify(line) THEN "end"
       ELSE CASE currentState = "header" ->
                   IF IncludesStatement(line) THEN "header-data"
                   ELSE IF MatchesActivityHeader(line) THEN "activity-header"
                   ELSE currentState
              [] currentState = "activity-header" ->
                   IF line = "" THEN "activity" ELSE currentState
              [] currentState = "header-data" -> "header"
              [] currentState \in {"expense-inside", "income-inside"} ->
                   IF line = "" THEN "activity" ELSE currentState
              [] currentState = "activity" ->
                   IF match.matched
                   THEN IF NumberOf(match.total) < 0 THEN "expense-inside"
                        ELSE "income-inside"
                   ELSE IF MatchesPageEnd(line) THEN "header"
                   ELSE currentState
              [] OTHER -> currentState

\* paypalStatementParser: createStatementParser({action, next, initialState:
\* Header, endState: End, parserKeywords}).
FmtPaypal ==
    [initialState |-> "header", endState |-> "end", initOutput |-> Undef,
     defaultParserOptions |-> Undef, style |-> "paypal",
     outputValidation |-> FALSE, pdfProcessing |-> "default"]

\* The transaction an action builds from a line: numbered by the entries the
\* output it was given already holds.
NewTransaction(line, o, ar) ==
    [text |-> line, n |-> Len(ar[o["incomes"].a]) + Len(ar[o["expenses"].a]) + 1]

\* What the action changes for (state, line): the field it writes, or "none".
ActionTarget(currentState, line) ==
    IF currentState = "header" /\ line = "acct" THEN "accountSuffix"
    ELSE IF currentState = "body" /\ line = "inc" THEN "incomes"
    ELSE IF currentState = "body" /\ line = "exp" THEN "expenses"
    ELSE "none"

\* action(currentState, input, lastOutput, parserOptions) of a format
\* definition.  `out` is the address of lastOutput; the result says whether
\* it threw and, when it returned, the heaps after it and the address of the
\* output it returned.  A "mutate" action writes into lastOutput and returns
\* it; a "functional" action returns a new object (with a new array when it
\* appends) and leaves lastOutput alone.
ActionFn(f, currentState, line, out, ob, ar) ==
    LET o == ob[out]
        target == ActionTarget(currentState, line)
        tx == NewTransaction(line, o, ar)
    IN IF f.style = "paypal"
       THEN performStateAction(currentState, line, out, ob, ar)
       ELSE IF line = "abad"
       THEN [threw |-> TRUE, objs |-> ob, arrs |-> ar, out |-> out]
       ELSE IF target = "none"
       THEN [threw |-> FALSE, objs |-> ob, arrs |-> ar, out |-> out]
       ELSE IF target = "accountSuffix"
       THEN IF f.style = "mutate"
            THEN [threw |-> FALSE,
                  objs |-> [ob EXCEPT ![out] = [o EXCEPT !["accountSuffix"] = Str("1234")]],
                  arrs |-> ar, out |-> out]
            ELSE [threw |-> FALSE,
                  objs |-> Append(ob, [o EXCEPT !["accountSuffix"] = Str("1234")]),
                  arrs |-> ar, out |-> Len(ob) + 1]
       ELSE IF f.style = "mutate"
            THEN [threw |-> FALSE, objs |-> ob,
                  arrs |-> [ar EXCEPT ![o[target].a] = Append(@, tx)],
                  out |-> out]
            ELSE [threw |-> FALSE,
                  objs |-> Append(ob, [o EXCEPT ![target] = Arr(Len(ar) + 1)]),
                  arrs |-> Append(ar, Append(ar[o[target].a], tx)),
                  out |-> Len(ob) + 1]

\* The value next() gives when it throws instead of returning a state.
Throws == "throws"

\* next(currentState, input) of a format definition.
NextFn(f, currentState, line) ==
    IF f.style = "paypal" THEN nextState(currentState, line)
    ELSE IF line = "nbad" THEN Throws
    ELSE IF line = "end" THEN "end"
    ELSE IF currentState = "header" /\ line = "go" THEN "body"
    ELSE currentState

\* outputValidation(output) of the format definition that has one: it
\* throws unless the statement holds an expense.
ValidationThrows(out, ob, ar) == ar[ob[out]["expenses"].a] = <<>>

\* --------------------------------------------------------------- messages

\* `${value}` in a template literal, for the values a filePath takes.
Text(v) == IF v.t = "str" THEN v.s ELSE "undefined"

\* A message is the sequence of the pieces it was concatenated from.
MissingSourceMessage == <<"Missing pdf processing method">>

SourceFailureMessage == <<"cannot read the document">>

ActionFailureMessage == <<"action cannot handle the line">>

NextFailureMessage == <<"next cannot handle the line">>

ValidationFailureMessage == <<"statement holds no expense">>

\* `Reached end of input before hitting end state on ${output.filePath}`
EndOfInputMessage(o) ==
    <<"Reached end of input before hitting end state on ", Text(o["filePath"])>>

\* `Parse completed without filling in account suffix on ${output.filePath}`
IncompleteMessage(o) ==
    <<"Parse completed without filling in account suffix on ", Text(o["filePath"])>>

\* A catch block that re-throws the error as it was caught.
CatchMessageUntouched(message, path) == message

\* error.message += ` in file: ${filePath}`
CatchMessage(message, path) == message \o <<" in file: ", path>>

\* -------------------------------------------------------------- the engine

\* [].concat(...pages): the lines of the pages, in page order.
RECURSIVE flatten2dArray(_)
flatten2dArray(pages) ==
    IF pages = <<>> THEN <<>> ELSE Head(pages) \o flatten2dArray(Tail(pages))

\* All sequences over `alphabet` of at most `n` elements.
SeqsUpTo(alphabet, n) == UNION {[1..k -> alphabet] : k \in 0..n}

\* What the line source resolves to: one page, or two pages cut anywhere.
PagesOf(alphabet, n) ==
    {<<s>> : s \in SeqsUpTo(alphabet, n)} \cup
    UNION {{<<SubSeq(s, 1, i), SubSeq(s, i + 1, Len(s))>> : i \in 0..Len(s)} :
           s \in SeqsUpTo(alphabet, n)}

\* A scaffold whose two arrays are created once and reused by every later
\* call (the literal hoisted out of the returned function).
StartingOutputHoisted(f, path, options, ob, ar) ==
    LET first == Len(ar) < 3
        ar2 == IF first THEN Append(Append(ar, <<>>), <<>>) ELSE ar
        startingOutput ==
            [incomes |-> Arr(2), expenses |-> Arr(3),
             filePath |-> Str(path), yearPrefix |-> options["yearPrefix"],
             accountSuffix |-> Str(""), endDate |-> Undef, startDate |-> Undef]
        copy == CopyFragment(IF IsUndef(f.initOutput) THEN EmptyObject
                             ELSE f.initOutput, ar2)
    IN [objs |-> Append(ob, Spread(startingOutput, copy.obj)),
        arrs |-> copy.arrs,
        out |-> Len(ob) + 1]

\* Lines 88-102: the scaffold, with two new arrays, overlaid with the copy of
\* the format's fragment.  Returns the heaps and the address of the output.
StartingOutput(f, path, options, ob, ar) ==
    LET ar2 == Append(Append(ar, <<>>), <<>>)
        startingOutput ==
            [incomes |-> Arr(Len(ar) + 1), expenses |-> Arr(Len(ar) + 2),
             filePath |-> Str(path), yearPrefix |-> options["yearPrefix"],
             accountSuffix |-> Str(""), endDate |-> Undef, startDate |-> Undef]
        copy == CopyFragment(IF IsUndef(f.initOutput) THEN EmptyObject
                             ELSE f.initOutput, ar2)
    IN [objs |-> Append(ob, Spread(startingOutput, copy.obj)),
        arrs |-> copy.arrs,
        out |-> Len(ob) + 1]

\* A loop that runs until the lines are exhausted.
LoopConditionAlways(st, f) == TRUE

\* while (state !== endState)
LoopCondition(st, f) == st # f.endState

\* A completion check that is never taken.
AccountSuffixNeverMissing(o) == FALSE

\* if (!output.accountSuffix)
AccountSuffixMissing(o) == Falsy(o["accountSuffix"])

\* An engine that keeps its own output and drops what the action returned.
OutputKept(out, returned) == out

\* output = action(...): the engine continues with what the action returned.
OutputAfterAction(out, returned) == returned

\* One invocation, for the record of what was invoked on which line.
Invocation(fn, st, index) == [fn |-> fn, state |-> st, line |-> index]

\* A try block that computes the next state before it runs the action.
TryBlockNextFirst(f, st, line, index, out, ob, ar) ==
    LET n == NextFn(f, st, line)
        a == ActionFn(f, IF n = Throws THEN st ELSE n, line, out, ob, ar)
    IN IF n = Throws
       THEN [threw |-> "next", state |-> st, out |-> out, objs |-> ob, arrs |-> ar,
             calls |-> <<Invocation("next", st, index)>>]
       ELSE [threw |-> IF a.threw THEN "action" ELSE "none",
             state |-> IF a.threw THEN st ELSE n,
             out |-> IF a.threw THEN out ELSE OutputAfterAction(out, a.out),
             objs |-> a.objs, arrs |-> a.arrs,
             calls |-> <<Invocation("next", st, index), Invocation("action", n, index)>>]

\* Lines 121-123: output = action(state, input, output, parserOptions);
\* state = next(state, input).  `threw` names the function that threw.
TryBlock(f, st, line, index, out, ob, ar) ==
    LET a == ActionFn(f, st, line, out, ob, ar)
        n == NextFn(f, st, line)
    IN IF a.threw
       THEN [threw |-> "action", state |-> st, out |-> out, objs |-> ob, arrs |-> ar,
             calls |-> <<Invocation("action", st, index)>>]
       ELSE [threw |-> IF n = Throws THEN "next" ELSE "none",
             state |-> IF n = Throws THEN st ELSE n,
             out |-> OutputAfterAction(out, a.out),
             objs |-> a.objs, arrs |-> a.arrs,
             calls |-> <<Invocation("action", st, index), Invocation("next", st, index)>>]

\* ------------------------------------------------------------------ state

\* The two parse calls that may be made on the registered format definition.
Calls == {1, 2}

VARIABLES
    fmt,                \* the format definition given to createStatementParser
    objs,               \* heap of objects: the outputs, by address
    arrs,               \* heap of arrays: the transaction lists, by address
    active,             \* the call running synchronously, 0 when none is
    pc,                 \* each call's position in parser()
    filePath,           \* each call's filePath argument
    inputParserOptions, \* each call's inputParserOptions argument
    statementLines,     \* each call's flattened lines
    cursor,             \* each call's iterator: the lines pulled so far
    state,              \* each call's `state`
    parserOptions,      \* each call's resolved `parserOptions`
    output,             \* each call's `output`: an address, 0 before it exists
    result,             \* what each call's promise settled with
    engine,             \* how each call's engine run ended: "none" while it
                        \* has not, "returned", or the place that threw
    calls,              \* each call's action and next invocations, in order
    checks,             \* how often each call ran the account suffix check
    mutated,            \* the calls whose caller has written into the output
    sourceCalls,        \* how often each call invoked the line source
    validated,          \* the outputs each call's validator was invoked with
    parserInput,        \* the input the sanitizer was given for the statement
    sanitizedTestObject, \* the fixture object the sanitizer built
    sampleFile,         \* the fixture as it is read back from the sample file
    reParsed            \* what the test of the fixture got from parsing again

vars ==
    <<fmt, objs, arrs, active, pc, filePath, inputParserOptions, statementLines,
      cursor, state, parserOptions, output, result, engine, calls, checks, mutated,
      sourceCalls, validated, parserInput, sanitizedTestObject, sampleFile,
      reParsed>>

\* The variables of the sanitizer, which a parse call leaves alone.
sanitizerVars == <<parserInput, sanitizedTestObject, sampleFile, reParsed>>

Pending == [kind |-> "pending", output |-> 0, message |-> <<>>]

Failure(message) == [kind |-> "error", output |-> 0, message |-> message]

Success(out) == [kind |-> "ok", output |-> out, message |-> <<>>]

\* createStatementParser has registered one of `formats`.  The array heap
\* starts with the array a fragment's incomes refer to (unreferenced when the
\* format definition's fragment has no incomes).
InitWith(formats) ==
    /\ fmt \in formats
    /\ objs = <<>>
    /\ arrs = << <<Tx0>> >>
    /\ active = 0
    /\ pc = [c \in Calls |-> "idle"]
    /\ filePath = [c \in Calls |-> ""]
    /\ inputParserOptions = [c \in Calls |-> Undef]
    /\ statementLines = [c \in Calls |-> <<>>]
    /\ cursor = [c \in Calls |-> 0]
    /\ state = [c \in Calls |-> fmt.initialState]
    /\ parserOptions = [c \in Calls |-> EmptyObject]
    /\ output = [c \in Calls |-> 0]
    /\ result = [c \in Calls |-> Pending]
    /\ engine = [c \in Calls |-> "none"]
    /\ calls = [c \in Calls |-> <<>>]
    /\ checks = [c \in Calls |-> 0]
    /\ mutated = {}
    /\ sourceCalls = [c \in Calls |-> 0]
    /\ validated = [c \in Calls |-> <<>>]
    /\ parserInput = Undef
    /\ sanitizedTestObject = Undef
    /\ sampleFile = Undef
    /\ reParsed = Undef

\* ---------------------------------------------------------------- actions

\* A check of the line source that never finds it missing.
SourceNeverMissing(f) == FALSE

\* if (!inputs.pdfProcessing), on the inputs merged at lines 46-49: the
\* default line source is replaced by whatever rawInputs names, also by an
\* explicit undefined.
SourceMissing(f) == f.pdfProcessing = "undefined"

\* parser({filePath, inputParserOptions}) up to its await (lines 51-59): the
\* line source is checked and then called.
Parse(c, paths, options) ==
    /\ active = 0
    /\ pc[c] = "idle"
    /\ \E path \in paths, opts \in options :
          /\ filePath' = [filePath EXCEPT ![c] = path]
          /\ inputParserOptions' = [inputParserOptions EXCEPT ![c] = opts]
    /\ IF SourceMissing(fmt)
       THEN /\ pc' = [pc EXCEPT ![c] = "done"]
            /\ result' = [result EXCEPT ![c] = Failure(MissingSourceMessage)]
            /\ UNCHANGED sourceCalls
       ELSE /\ pc' = [pc EXCEPT ![c] = "awaiting"]
            /\ sourceCalls' = [sourceCalls EXCEPT ![c] = @ + 1]
            /\ UNCHANGED result
    /\ UNCHANGED <<fmt, objs, arrs, active, statementLines, cursor, state,
                   parserOptions, output, engine, calls, checks, mutated, validated, sanitizerVars>>

\* The line source rejects: the await throws and the call fails with the
\* line source's error.
SourceFails(c) ==
    /\ active = 0
    /\ pc[c] = "awaiting"
    /\ pc' = [pc EXCEPT ![c] = "done"]
    /\ result' = [result EXCEPT ![c] = Failure(SourceFailureMessage)]
    /\ UNCHANGED <<fmt, objs, arrs, active, filePath, inputParserOptions,
                   statementLines, cursor, state, parserOptions, output, engine,
                   calls, checks, mutated, sourceCalls, validated, sanitizerVars>>

\* The line source resolves with pages (lines 59-76 and 77-102): the lines
\* are flattened, the engine is created and called, and it sets up its state,
\* its iterator, its options and its output.
Resume(c, pageSets) ==
    /\ active = 0
    /\ pc[c] = "awaiting"
    /\ \E pages \in pageSets :
          statementLines' = [statementLines EXCEPT ![c] = flatten2dArray(pages)]
    /\ LET options == ResolveParserOptions(fmt.defaultParserOptions,
                                           inputParserOptions[c])
           start == StartingOutput(fmt, filePath[c], options, objs, arrs)
       IN /\ parserOptions' = [parserOptions EXCEPT ![c] = options]
          /\ objs' = start.objs
          /\ arrs' = start.arrs
          /\ output' = [output EXCEPT ![c] = start.out]
    /\ state' = [state EXCEPT ![c] = fmt.initialState]
    /\ cursor' = [cursor EXCEPT ![c] = 0]
    /\ pc' = [pc EXCEPT ![c] = "loop"]
    /\ active' = c
    /\ UNCHANGED <<fmt, filePath, inputParserOptions, result, engine, calls,
                   checks, mutated,
                   sourceCalls, validated, sanitizerVars>>

\* The engine throws: the call's promise rejects with the error.  `how` is
\* the place that threw: "exhausted" (line 111), "action" or "next" (line
\* 126), "incomplete" (line 136).
EngineThrows(c, how, message) ==
    /\ pc' = [pc EXCEPT ![c] = "done"]
    /\ result' = [result EXCEPT ![c] = Failure(message)]
    /\ engine' = [engine EXCEPT ![c] = how]
    /\ active' = 0

\* An iterator that yields the line it is on again and again.
IteratorStuck(lines, position) ==
    IF lines = <<>>
    THEN [done |-> TRUE, cursor |-> position]
    ELSE [done |-> FALSE, value |-> lines[1], index |-> 1, cursor |-> position]

\* iterator.next() on the array iterator of the lines (line 105): done after
\* the last line, else the next line, and the iterator moves past it.
IteratorNext(lines, position) ==
    IF position >= Len(lines)
    THEN [done |-> TRUE, cursor |-> position]
    ELSE [done |-> FALSE, value |-> lines[position + 1], index |-> position + 1,
          cursor |-> position + 1]

\* One pass of the while loop (lines 104-128): pull a line, fail when there
\* is none, else run the action and the transition on it.
LoopIteration(c) ==
    /\ active = c
    /\ pc[c] = "loop"
    /\ LoopCondition(state[c], fmt)
    /\ IF IteratorNext(statementLines[c], cursor[c]).done
       THEN /\ EngineThrows(c, "exhausted", EndOfInputMessage(objs[output[c]]))
            /\ UNCHANGED <<objs, arrs, cursor, state, output, calls>>
       ELSE LET nextInput == IteratorNext(statementLines[c], cursor[c])
                index == nextInput.index
                try == TryBlock(fmt, state[c], nextInput.value, index,
                                output[c], objs, arrs)
            IN /\ cursor' = [cursor EXCEPT ![c] = nextInput.cursor]
               /\ calls' = [calls EXCEPT ![c] = @ \o try.calls]
               /\ objs' = try.objs
               /\ arrs' = try.arrs
               /\ output' = [output EXCEPT ![c] = try.out]
               /\ state' = [state EXCEPT ![c] = try.state]
               /\ IF try.threw = "none"
                  THEN UNCHANGED <<pc, result, engine, active>>
                  ELSE EngineThrows(c, try.threw, CatchMessage(
                           IF try.threw = "action" THEN ActionFailureMessage
                           ELSE NextFailureMessage, filePath[c]))
    /\ UNCHANGED <<fmt, filePath, inputParserOptions, statementLines,
                   parserOptions, checks, mutated,
                   sourceCalls, validated, sanitizerVars>>

\* The while condition is false: the loop is left.
LoopExit(c) ==
    /\ active = c
    /\ pc[c] = "loop"
    /\ ~LoopCondition(state[c], fmt)
    /\ pc' = [pc EXCEPT ![c] = "check"]
    /\ UNCHANGED <<fmt, objs, arrs, active, filePath, inputParserOptions,
                   statementLines, cursor, state, parserOptions, output, result,
                   engine, calls, checks, mutated, sourceCalls, validated, sanitizerVars>>

\* Lines 130-139: the account suffix check, then the engine returns.
CompletionCheck(c) ==
    /\ active = c
    /\ pc[c] = "check"
    /\ checks' = [checks EXCEPT ![c] = @ + 1]
    /\ IF AccountSuffixMissing(objs[output[c]])
       THEN EngineThrows(c, "incomplete", IncompleteMessage(objs[output[c]]))
       ELSE /\ pc' = [pc EXCEPT ![c] = "validate"]
            /\ engine' = [engine EXCEPT ![c] = "returned"]
            /\ UNCHANGED <<result, active>>
    /\ UNCHANGED <<fmt, objs, arrs, filePath, inputParserOptions, statementLines,
                   cursor, state, parserOptions, output, calls, mutated,
                   sourceCalls, validated, sanitizerVars>>

\* A parse call that returns the output whatever the validator does.
ValidationIgnored(f, out, ob, ar) == Success(out)

\* What the call settles with after lines 78-82: the validator's error as it
\* was thrown, or the engine's output.
ValidationResult(f, out, ob, ar) ==
    IF f.outputValidation /\ ValidationThrows(out, ob, ar)
    THEN Failure(ValidationFailureMessage)
    ELSE Success(out)

\* Lines 78-82: the format's output validator, when it has one, then the
\* call returns the engine's output.
Validate(c) ==
    /\ active = c
    /\ pc[c] = "validate"
    /\ pc' = [pc EXCEPT ![c] = "done"]
    /\ active' = 0
    /\ result' = [result EXCEPT ![c] = ValidationResult(fmt, output[c], objs, arrs)]
    /\ validated' = [validated EXCEPT ![c] =
                       IF fmt.outputValidation THEN Append(@, output[c]) ELSE @]
    /\ UNCHANGED <<fmt, objs, arrs, filePath, inputParserOptions, statementLines,
                   cursor, state, parserOptions, output, engine, calls, checks,
                   mutated, sourceCalls, sanitizerVars>>

\* The transaction a caller pushes into an output it was handed.
CallerTx == [text |-> "caller", n |-> 0]

\* The caller of a successful parse writes into the output it was handed:
\* into the object and into both of its arrays.
CallerMutates(c) ==
    /\ active = 0
    /\ pc[c] = "done"
    /\ result[c].kind = "ok"
    /\ c \notin mutated
    /\ mutated' = mutated \cup {c}
    /\ LET o == objs[result[c].output]
       IN /\ objs' = [objs EXCEPT ![result[c].output] =
                        [o EXCEPT !["accountSuffix"] = Str("changed")]]
          /\ arrs' = [arrs EXCEPT ![o["incomes"].a] = Append(@, CallerTx),
                                   ![o["expenses"].a] = Append(@, CallerTx)]
    /\ UNCHANGED <<fmt, active, pc, filePath, inputParserOptions, statementLines,
                   cursor, state, parserOptions, output, result, engine, calls,
                   checks,
                   sourceCalls, validated, sanitizerVars>>

\* ---------------------------------------------------------- specifications

\* The file paths callers pass.
Paths == {"a.pdf", "b.pdf"}

Init == InitWith(Formats)

\* One parse call, any format definition, any document.
Next ==
    \/ Parse(1, Paths, CallerOptions)
    \/ SourceFails(1)
    \/ Resume(1, PagesOf(Lines, MaxLen))
    \/ LoopIteration(1)
    \/ LoopExit(1)
    \/ CompletionCheck(1)
    \/ Validate(1)

Spec == Init /\ [][Next]_vars

InitConc == InitWith(FormatsConc)

\* Two parse calls on one format definition, interleaved at the line source.
NextConc ==
    \E c \in Calls :
        \/ Parse(c, {"a.pdf"}, {Undef, [yearPrefix |-> Num(18)]})
        \/ SourceFails(c)
        \/ Resume(c, {<<s>> : s \in SeqsUpTo(LinesConc, MaxLenConc)})
        \/ LoopIteration(c)
        \/ LoopExit(c)
        \/ CompletionCheck(c)
        \/ Validate(c)
        \/ CallerMutates(c)

SpecConc == InitConc /\ [][NextConc]_vars

InitEdge == InitWith(FormatsEdge)

\* One parse call on the edge-case format definitions.
NextEdge ==
    \/ Parse(1, Paths, {Undef, [yearPrefix |-> Num(18)]})
    \/ SourceFails(1)
    \/ Resume(1, PagesOf(Lines, MaxLenEdge))
    \/ LoopIteration(1)
    \/ LoopExit(1)
    \/ CompletionCheck(1)
    \/ Validate(1)

SpecEdge == InitEdge /\ [][NextEdge]_vars

\* The synchronous phase of a call: once the engine has started, JavaScript
\* runs it to completion, so its next step is always taken.
SynchronousStep == LoopIteration(1) \/ LoopExit(1) \/ CompletionCheck(1)

SpecEdgeFair == SpecEdge /\ WF_vars(SynchronousStep)

\* The eight-line statement: brand, statement period, period and account,
\* activity header, blank, one expense, blank, the closing notice.
PaypalStatement ==
    <<BrandLine, StatementLine, PeriodLine, ActivityHeaderLine, BlankLine,
      ExpenseLine, BlankLine, NotifyLine>>

\* The lines of the head of a statement and of its activity section.
PaypalHeadLines ==
    {BrandLine, StatementLine, PeriodLine, ActivityHeaderLine, BlankLine, NotifyLine}

PaypalActivityLines ==
    {BlankLine, ExpenseLine, IncomeLine, MixedLine, NoteLine, PageLine,
     NotifyLine, NotifyTitleLine}

\* The documents the line source yields for PayPal: the eight-line
\* statement, short heads, and short activity sections after an opening with
\* or without the period-and-account line.
PaypalDocuments ==
    {PaypalStatement}
    \cup SeqsUpTo(PaypalHeadLines, MaxLenPaypal)
    \cup {<<ActivityHeaderLine, BlankLine>> \o s :
              s \in SeqsUpTo(PaypalActivityLines, MaxLenPaypal)}
    \cup {<<StatementLine, PeriodLine, ActivityHeaderLine, BlankLine>> \o s :
              s \in SeqsUpTo(PaypalActivityLines, MaxLenPaypal)}

InitPaypal == InitWith({FmtPaypal})

\* One parse call on the PayPal format definition.
NextPaypal ==
    \/ Parse(1, {"a.pdf"}, {Undef})
    \/ SourceFails(1)
    \/ Resume(1, {<<d>> : d \in PaypalDocuments})
    \/ LoopIteration(1)
    \/ LoopExit(1)
    \/ CompletionCheck(1)
    \/ Validate(1)

SpecPaypal == InitPaypal /\ [][NextPaypal]_vars

\* ----------------------------------------------------------------- claims

\* The calls whose engine run has ended.
EngineEnded(c) == engine[c] # "none"

\* The output object a call's engine holds.
Out(c) == objs[output[c]]

\* C1: the engine returns an output only when the state is the declared
\* terminal state and the output's accountSuffix is non-empty; every other
\* engine run throws, and the caller is handed no output with the failure.
C1_ReturnsOnlyComplete ==
    \A c \in Calls :
        /\ engine[c] = "returned" =>
              /\ state[c] = fmt.endState
              /\ ~Falsy(Out(c)["accountSuffix"])
        /\ (EngineEnded(c) /\ (state[c] # fmt.endState \/ Falsy(Out(c)["accountSuffix"]))) =>
              /\ engine[c] # "returned"
              /\ pc[c] = "done"
              /\ result[c].kind = "error"
              /\ result[c].output = 0
        /\ result[c].kind = "ok" => engine[c] = "returned" /\ result[c].output = output[c]

\* A run that reached the terminal state with an account suffix set by the
\* action, and returned.
C1_Witness ==
    /\ engine[1] = "returned"
    /\ result[1].kind = "ok"
    /\ cursor[1] >= 2
    /\ Out(1)["accountSuffix"] = Str("1234")

\* C2 (as claimed): a run that exhausts its lines without reaching the
\* terminal state fails with the end-of-input message, and the message holds
\* the file path the parse call was given.
C2_EndOfInputNamesSuppliedPath ==
    \A c \in Calls :
        engine[c] = "exhausted" =>
            /\ state[c] # fmt.endState
            /\ result[c] = Failure(<<"Reached end of input before hitting end state on ",
                                     filePath[c]>>)

\* C3 (as claimed): a run that reaches the terminal state with an empty
\* accountSuffix fails with the incomplete-output message, the message holds
\* the file path of the parse call, and the check ran once, after the loop.
C3_IncompleteNamesSuppliedPath ==
    \A c \in Calls :
        (EngineEnded(c) /\ state[c] = fmt.endState /\ Falsy(Out(c)["accountSuffix"])) =>
            /\ engine[c] = "incomplete"
            /\ checks[c] = 1
            /\ result[c] = Failure(<<"Parse completed without filling in account suffix on ",
                                     filePath[c]>>)

\* The entries the action invocations of a call appended, in invocation
\* order, numbered from `base` + 1: each with the list it was appended to.
RECURSIVE AppendedFrom(_, _, _)
AppendedFrom(c, invocations, base) ==
    IF invocations = <<>> THEN <<>>
    ELSE LET e == Head(invocations)
             line == statementLines[c][e.line]
             target == IF e.fn = "action" THEN ActionTarget(e.state, line) ELSE "none"
         IN IF target \in {"incomes", "expenses"}
            THEN <<[list |-> target, tx |-> [text |-> line, n |-> base + 1]]>>
                 \o AppendedFrom(c, Tail(invocations), base + 1)
            ELSE AppendedFrom(c, Tail(invocations), base)

\* The incomes the format's fragment starts an output with.
FragmentIncomes ==
    IF ~IsUndef(fmt.initOutput) /\ "incomes" \in DOMAIN fmt.initOutput
    THEN <<Tx0>> ELSE <<>>

\* The transactions of `list` among the appended entries, in order.
TxOf(entries, list) ==
    LET chosen == SelectSeq(entries, LAMBDA e : e.list = list)
    IN [i \in 1..Len(chosen) |-> chosen[i].tx]

\* The lists of a returned output hold the fragment's entries followed by
\* the entries the action invocations appended, in the order of appending.
OrderPreserved(c) ==
    LET entries == AppendedFrom(c, calls[c], Len(FragmentIncomes))
    IN /\ arrs[Out(c)["incomes"].a] = FragmentIncomes \o TxOf(entries, "incomes")
       /\ arrs[Out(c)["expenses"].a] = TxOf(entries, "expenses")

\* C4 (as claimed): whenever the terminal state is reached with a non-empty
\* accountSuffix, the parse call succeeds and the lists are in append order.
C4_ParseSucceeds ==
    \A c \in Calls :
        (pc[c] = "done" /\ EngineEnded(c) /\ state[c] = fmt.endState
                        /\ ~Falsy(Out(c)["accountSuffix"])) =>
            /\ result[c].kind = "ok"
            /\ OrderPreserved(c)

\* C4 (amended): whenever the terminal state is reached with a non-empty
\* accountSuffix, the engine returns with the lists in append order, and the
\* parse call succeeds with that output unless the format's output validator
\* throws, in which case it fails with the validator's error.
C4_EngineSucceedsInOrder ==
    \A c \in Calls :
        (EngineEnded(c) /\ state[c] = fmt.endState /\ ~Falsy(Out(c)["accountSuffix"])) =>
            /\ engine[c] = "returned"
            /\ OrderPreserved(c)
            /\ pc[c] = "done" =>
                  \/ result[c] = Success(output[c])
                  \/ /\ fmt.outputValidation
                     /\ ValidationThrows(output[c], objs, arrs)
                     /\ result[c] = Failure(ValidationFailureMessage)

\* A successful parse whose action appended two incomes and an expense
\* after the fragment's opening entry.
C4_Witness ==
    /\ result[1].kind = "ok"
    /\ Len(arrs[Out(1)["incomes"].a]) >= 2
    /\ Len(arrs[Out(1)["expenses"].a]) >= 1
    /\ cursor[1] >= 3

\* The state the engine is in before it pulls line i: the declared initial
\* state, then what next() returned for each earlier line.
RECURSIVE PreLineState(_, _)
PreLineState(c, i) ==
    IF i = 1 THEN fmt.initialState
    ELSE NextFn(fmt, PreLineState(c, i - 1), statementLines[c][i - 1])

\* C5 (as claimed): every line pulled has exactly one action invocation
\* followed by exactly one next invocation, both on that line and on the
\* state the engine was in before the line.
C5_EveryLineActionThenNext ==
    \A c \in Calls :
        /\ Len(calls[c]) = 2 * cursor[c]
        /\ \A i \in 1..cursor[c] :
              /\ calls[c][2 * i - 1] = Invocation("action", PreLineState(c, i), i)
              /\ calls[c][2 * i] = Invocation("next", PreLineState(c, i), i)

\* C5 (amended): every line pulled has exactly one action invocation, on
\* that line and the pre-line state, followed by exactly one next invocation
\* on the same line and state, except that a line whose action invocation
\* throws has no next invocation (and is the last line pulled).
C5_ActionThenNextUnlessActionThrew ==
    \A c \in Calls :
        /\ Len(calls[c]) = 2 * cursor[c] - (IF engine[c] = "action" THEN 1 ELSE 0)
        /\ \A i \in 1..cursor[c] :
              /\ calls[c][2 * i - 1] = Invocation("action", PreLineState(c, i), i)
              /\ (i < cursor[c] \/ engine[c] # "action") =>
                    calls[c][2 * i] = Invocation("next", PreLineState(c, i), i)

\* Three lines pulled, each given to action and then to next, across a
\* change of state.
C5_Witness ==
    /\ cursor[1] = 3
    /\ Len(calls[1]) = 6
    /\ calls[1][1].state # calls[1][5].state

\* C6: once the state is the terminal state no line is pulled, neither
\* action nor next is invoked, the state and the output stay as they are,
\* and the only failures left are the account suffix check and the output
\* validator, neither of which reads the remaining lines.
C6_StopsAtTerminal ==
    [][\A c \in Calls :
          (pc[c] \in {"loop", "check", "validate", "done"} /\ state[c] = fmt.endState) =>
              /\ cursor'[c] = cursor[c]
              /\ calls'[c] = calls[c]
              /\ state'[c] = state[c]
              /\ output'[c] = output[c]
              /\ objs' = objs
              /\ arrs' = arrs
              /\ (result'[c].kind = "error" /\ result[c].kind # "error") =>
                    result'[c].message \in
                        {IncompleteMessage(Out(c)), ValidationFailureMessage}]_vars

\* A successful parse that left lines of the sequence unconsumed.
C6_Witness ==
    /\ result[1].kind = "ok"
    /\ cursor[1] >= 1
    /\ cursor[1] < Len(statementLines[1])

\* C7: an exception thrown by action or next on a line ends the run with
\* that error, its message followed once by " in file: " and the supplied
\* file path; the throwing function was invoked once on that line, the line
\* is the last one pulled, and no output is returned.
C7_CallbackErrorWrappedOnce ==
    \A c \in Calls :
        engine[c] \in {"action", "next"} =>
            /\ pc[c] = "done"
            /\ result[c] = Failure((IF engine[c] = "action" THEN ActionFailureMessage
                                    ELSE NextFailureMessage)
                                   \o <<" in file: ", filePath[c]>>)
            /\ calls[c] # <<>>
            /\ calls[c][Len(calls[c])] =
                  Invocation(engine[c], PreLineState(c, cursor[c]), cursor[c])
            /\ Cardinality({i \in 1..Len(calls[c]) :
                               /\ calls[c][i].fn = engine[c]
                               /\ calls[c][i].line = cursor[c]}) = 1

\* The transition function threw on the second line or later.
C7_Witness ==
    /\ engine[1] = "next"
    /\ cursor[1] >= 2
    /\ cursor[1] < Len(statementLines[1])

\* Whether an option set is given and names yearPrefix.
NamesYearPrefix(o) == ~IsUndef(o) /\ "yearPrefix" \in DOMAIN o

\* C8 (as claimed): the resolved yearPrefix is the caller's when the caller
\* names one, else the format default's when the format has one, else the
\* base default's; and every field of the resolved option set is populated.
C8_OptionPrecedence ==
    \A c \in Calls :
        (pc[c] \in {"loop", "check", "validate"} \/ EngineEnded(c)) =>
            LET caller == inputParserOptions[c]
                format == fmt.defaultParserOptions
                resolved == parserOptions[c]
            IN /\ "yearPrefix" \in DOMAIN resolved
               /\ resolved["yearPrefix"] =
                     IF NamesYearPrefix(caller) THEN caller["yearPrefix"]
                     ELSE IF NamesYearPrefix(format) THEN format["yearPrefix"]
                     ELSE baseParserOptions["yearPrefix"]
               /\ \A k \in DOMAIN resolved : ~IsUndef(resolved[k])

\* An output as plain data: its scalar fields and the contents of its lists.
DeepOutput(out, ob, ar) ==
    [fields |-> [k \in DOMAIN ob[out] \ {"incomes", "expenses"} |-> ob[out][k]],
     incomes |-> ar[ob[out]["incomes"].a],
     expenses |-> ar[ob[out]["expenses"].a]]

\* The arrays an output refers to.
ArraysOf(out) == {objs[out]["incomes"].a, objs[out]["expenses"].a}

\* Two calls were given the same file path, options and lines.
SameInputs(c, d) ==
    /\ filePath[c] = filePath[d]
    /\ IsUndef(inputParserOptions[c]) = IsUndef(inputParserOptions[d])
    /\ ~IsUndef(inputParserOptions[c]) => inputParserOptions[c] = inputParserOptions[d]
    /\ statementLines[c] = statementLines[d]

\* What a caller's write leaves in an output.
CallerWroteInto(out) ==
    \/ objs[out]["accountSuffix"] = Str("changed")
    \/ \E a \in ArraysOf(out) : \E i \in 1..Len(arrs[a]) : arrs[a][i] = CallerTx

\* C9: two calls with the same format definition, options and input return
\* structurally equal outputs; the outputs share no object and no array with
\* each other or with the format's fragment, so what a caller writes into
\* one output shows in no other output and not in the fragment.
C9_Isolation ==
    /\ arrs[FragmentArray] = <<Tx0>>
    /\ \A c \in Calls :
          result[c].kind = "ok" =>
              /\ FragmentArray \notin ArraysOf(result[c].output)
              /\ c \notin mutated => ~CallerWroteInto(result[c].output)
              /\ \A d \in Calls \ {c} :
                    result[d].kind = "ok" =>
                        /\ result[c].output # result[d].output
                        /\ ArraysOf(result[c].output) \cap ArraysOf(result[d].output) = {}
                        /\ (SameInputs(c, d) /\ mutated = {}) =>
                              DeepOutput(result[c].output, objs, arrs)
                                  = DeepOutput(result[d].output, objs, arrs)

\* Two successful calls with the same input, after the caller of the first
\* wrote into its output and the caller of the second did not.
C9_Witness ==
    /\ result[1].kind = "ok"
    /\ result[2].kind = "ok"
    /\ SameInputs(1, 2)
    /\ mutated = {1}
    /\ Len(arrs[objs[result[2].output]["incomes"].a]) >= 2

\* The result of a call as plain data.
Outcome(kind, message, out, ob, ar) ==
    [kind |-> kind, message |-> message,
     value |-> IF kind = "ok" THEN <<DeepOutput(out, ob, ar)>> ELSE <<>>]

\* The engine's loop and completion check on heaps of its own, from state
\* `st` with `i` lines pulled.
RECURSIVE LoopAlone(_, _, _, _, _, _, _, _)
LoopAlone(f, path, lines, st, i, out, ob, ar) ==
    IF ~LoopCondition(st, f)
    THEN IF AccountSuffixMissing(ob[out])
         THEN Outcome("error", IncompleteMessage(ob[out]), out, ob, ar)
         ELSE IF f.outputValidation /\ ValidationThrows(out, ob, ar)
         THEN Outcome("error", ValidationFailureMessage, out, ob, ar)
         ELSE Outcome("ok", <<>>, out, ob, ar)
    ELSE IF i >= Len(lines)
    THEN Outcome("error", EndOfInputMessage(ob[out]), out, ob, ar)
    ELSE LET try == TryBlock(f, st, lines[i + 1], i + 1, out, ob, ar)
         IN IF try.threw # "none"
            THEN Outcome("error",
                         CatchMessage(IF try.threw = "action" THEN ActionFailureMessage
                                      ELSE NextFailureMessage, path),
                         out, ob, ar)
            ELSE LoopAlone(f, path, lines, try.state, i + 1, try.out, try.objs, try.arrs)

\* What a parse call yields when it is the only call ever made on the
\* format definition: the engine run on a heap that holds the fragment only.
RunAlone(f, path, opts, lines) ==
    LET options == ResolveParserOptions(f.defaultParserOptions, opts)
        start == StartingOutput(f, path, options, <<>>, << <<Tx0>> >>)
    IN LoopAlone(f, path, lines, f.initialState, 0, start.out, start.objs, start.arrs)

\* C10: calls on one format definition interleave only while they wait for
\* the line source: at most one call is past it and not finished, and it
\* holds the stack; each call's options are resolved from its own arguments;
\* and every finished call's result is the result of running it alone.
C10_SameAsAlone ==
    \A c \in Calls :
        /\ pc[c] \in {"loop", "check", "validate"} => active = c
        /\ (pc[c] = "done" /\ EngineEnded(c)) =>
              /\ parserOptions[c] =
                    ResolveParserOptions(fmt.defaultParserOptions, inputParserOptions[c])
              /\ c \notin mutated =>
                    Outcome(result[c].kind, result[c].message, output[c], objs, arrs)
                        = RunAlone(fmt, filePath[c], inputParserOptions[c],
                                   statementLines[c])

\* One call has finished with an output of two lines' entries while the
\* other call, made earlier or later, still waits for its line source.
C10_Witness ==
    /\ pc[1] = "awaiting"
    /\ result[2].kind = "ok"
    /\ 2 \notin mutated
    /\ cursor[2] >= 2
    /\ Len(arrs[objs[result[2].output]["expenses"].a]) >= 1

\* C11: when the format's line source is missing after the merge with the
\* default, a parse call can only fail with 'Missing pdf processing method',
\* and neither the line source, the engine, action, next nor the validator
\* has been invoked.
C11_MissingSourceFailsFirst ==
    fmt.pdfProcessing = "undefined" =>
        \A c \in Calls :
            /\ pc[c] \in {"idle", "done"}
            /\ pc[c] = "done" => result[c] = Failure(MissingSourceMessage)
            /\ sourceCalls[c] = 0
            /\ engine[c] = "none"
            /\ calls[c] = <<>>
            /\ checks[c] = 0
            /\ validated[c] = <<>>
            /\ output[c] = 0

\* A parse call on a format without line source has failed.
C11_Witness ==
    /\ fmt.pdfProcessing = "undefined"
    /\ pc[1] = "done"
    /\ result[1] = Failure(MissingSourceMessage)

\* C12: a format's output validator is invoked at most once per parse call,
\* only once the engine has returned and with the output the engine
\* returned; a settled call whose engine returned has invoked it exactly
\* once, a call whose engine failed never; when the validator throws, the
\* call fails with the validator's own error and no output.  A format
\* without validator invokes none.
C12_ValidatorOnceAfterEngine ==
    \A c \in Calls :
        /\ Len(validated[c]) <= 1
        /\ ~fmt.outputValidation => validated[c] = <<>>
        /\ validated[c] # <<>> =>
              /\ engine[c] = "returned"
              /\ validated[c][1] = output[c]
        /\ fmt.outputValidation /\ pc[c] = "done" =>
              /\ Len(validated[c]) = 1 <=> engine[c] = "returned"
              /\ engine[c] = "returned" =>
                    result[c] = IF ValidationThrows(output[c], objs, arrs)
                                THEN Failure(ValidationFailureMessage)
                                ELSE Success(output[c])

\* A validator has thrown on the output of an engine that returned.
C12_Witness ==
    /\ fmt.outputValidation
    /\ pc[1] = "done"
    /\ validated[1] = <<output[1]>>
    /\ engine[1] = "returned"
    /\ result[1] = Failure(ValidationFailureMessage)

\* The format introduces an option field beyond the base set for which its
\* defaultParserOptions holds no value.
MissesDefault(f) ==
    /\ "optionFields" \in DOMAIN f
    /\ \E k \in f.optionFields \ DOMAIN baseParserOptions :
          \/ IsUndef(f.defaultParserOptions)
          \/ k \notin DOMAIN f.defaultParserOptions

\* C13: a format definition that lacks the default of an option field it
\* introduces is rejected when it is registered: no parse call on it invokes
\* the line source, runs the loop, or returns an output.
C13_MissingDefaultRejected ==
    MissesDefault(fmt) =>
        \A c \in Calls :
            /\ sourceCalls[c] = 0
            /\ calls[c] = <<>>
            /\ engine[c] = "none"
            /\ result[c].kind # "ok"

\* The invocations of `fn` a call has made.
InvocationsOf(c, fn) == SelectSeq(calls[c], LAMBDA i : i.fn = fn)

\* C16: on n lines the engine makes at most n action and at most n next
\* invocations, every pass of the loop that stays in the loop consumes one
\* line, and an engine run that has started eventually returns or throws.
C16_EngineTerminates ==
    /\ [](\A c \in Calls :
            /\ Len(InvocationsOf(c, "action")) <= Len(statementLines[c])
            /\ Len(InvocationsOf(c, "next")) <= Len(statementLines[c])
            /\ cursor[c] <= Len(statementLines[c]))
    /\ [][\A c \in Calls :
            (pc[c] = "loop" /\ pc'[c] = "loop") => cursor'[c] = cursor[c] + 1]_vars
    /\ (pc[1] = "loop" ~> engine[1] # "none")

\* An engine run has ended after one action and one next invocation on
\* every line of a two-line document.
C16_Witness ==
    /\ engine[1] = "returned"
    /\ Len(statementLines[1]) = 2
    /\ Len(InvocationsOf(1, "action")) = 2
    /\ Len(InvocationsOf(1, "next")) = 2

\* The scalar fields of the scaffold of call c.
Scaffold(c) ==
    [filePath |-> Str(filePath[c]), yearPrefix |-> parserOptions[c]["yearPrefix"],
     accountSuffix |-> Str(""), endDate |-> Undef, startDate |-> Undef]

\* The fields a format definition's fragment holds a value for.
FragmentOf(f) ==
    IF IsUndef(f.initOutput) THEN EmptyObject
    ELSE [k \in {j \in DOMAIN f.initOutput : ~IsUndef(f.initOutput[j])} |->
            f.initOutput[k]]

\* C17: the output the first action invocation is given is the scaffold
\* overlaid with the fragment: every field the fragment holds a value for
\* has the fragment's value, every other field the scaffold's value (empty lists,
\* the supplied filePath, the resolved yearPrefix, an empty accountSuffix,
\* undefined dates).
C17_FirstOutputIsOverlay ==
    \A c \in Calls :
        (pc[c] = "loop" /\ cursor[c] = 0) =>
            LET o == objs[output[c]]
                fragment == FragmentOf(fmt)
            IN /\ DOMAIN o = DOMAIN Scaffold(c) \cup DOMAIN fragment
                                \cup {"incomes", "expenses"}
               /\ \A k \in DOMAIN o :
                     IF k \in {"incomes", "expenses"}
                     THEN arrs[o[k].a] = IF k \in DOMAIN fragment
                                         THEN arrs[fragment[k].a] ELSE <<>>
                     ELSE o[k] = IF k \in DOMAIN fragment
                                 THEN fragment[k] ELSE Scaffold(c)[k]

\* The format's fragment supplies a non-empty accountSuffix.
SuffixSupplied(f) ==
    /\ "accountSuffix" \in DOMAIN FragmentOf(f)
    /\ ~Falsy(FragmentOf(f)["accountSuffix"])

\* The output of call c is still the initial output: nothing was appended
\* and the account suffix is the fragment's (or the scaffold's empty one).
IsInitialOutput(c) ==
    LET o == objs[output[c]]
    IN /\ arrs[o["expenses"].a] = <<>>
       /\ arrs[o["incomes"].a] =
             IF "incomes" \in DOMAIN FragmentOf(fmt)
             THEN arrs[FragmentOf(fmt)["incomes"].a] ELSE <<>>
       /\ o["accountSuffix"] =
             IF "accountSuffix" \in DOMAIN FragmentOf(fmt)
             THEN FragmentOf(fmt)["accountSuffix"] ELSE Str("")
       /\ o["filePath"] =
             IF "filePath" \in DOMAIN FragmentOf(fmt)
             THEN FragmentOf(fmt)["filePath"] ELSE Str(filePath[c])

\* With initial state = terminal state the engine consumes no line and
\* invokes neither action nor next, and it ends by returning the initial
\* output when the fragment supplies an account suffix, else by the
\* incomplete-output error, never by the end-of-input error.
DegenerateEngine(c) ==
    /\ cursor[c] = 0
    /\ calls[c] = <<>>
    /\ engine[c] \in {"none", IF SuffixSupplied(fmt) THEN "returned" ELSE "incomplete"}
    /\ engine[c] # "none" => IsInitialOutput(c)
    /\ engine[c] = "incomplete" =>
          result[c] = Failure(IncompleteMessage(objs[output[c]]))

\* C18 as stated: with initial state = terminal state no line is consumed
\* and nothing invoked, and the parse succeeds with the initial output when
\* the fragment supplies a non-empty accountSuffix, else fails with the
\* incomplete-output error.
C18_DegenerateParseSucceeds ==
    fmt.initialState = fmt.endState =>
        \A c \in Calls :
            /\ DegenerateEngine(c)
            /\ (pc[c] = "done" /\ engine[c] = "returned") =>
                  result[c] = Success(output[c])

\* C18, amended: the same, and the parse succeeds with the initial output
\* unless the format's output validator throws on it, in which case the
\* parse fails with the validator's error.
C18_DegenerateEngineEnds ==
    fmt.initialState = fmt.endState =>
        \A c \in Calls :
            /\ DegenerateEngine(c)
            /\ (pc[c] = "done" /\ engine[c] = "returned") =>
                  result[c] = IF fmt.outputValidation
                                   /\ ValidationThrows(output[c], objs, arrs)
                              THEN Failure(ValidationFailureMessage)
                              ELSE Success(output[c])

\* A degenerate format has returned its initial output for a two-line
\* document without consuming a line.
C18_Witness ==
    /\ fmt.initialState = fmt.endState
    /\ Len(statementLines[1]) = 2
    /\ cursor[1] = 0
    /\ pc[1] = "done"
    /\ result[1] = Success(output[1])

\* The states call c has been in: the state at every line it processed,
\* then the state it is in.
Visited(c) ==
    LET actions == InvocationsOf(c, "action")
    IN [i \in 1..Len(actions) |-> actions[i].state] \o <<state[c]>>

\* The states of the eight-line statement, and its one expense.
PaypalStatementStates ==
    <<"header", "header", "header-data", "header", "activity-header", "activity",
      "expense-inside", "activity", "end">>

CoffeeShop ==
    [date |-> "2021-01-05", description |-> <<"Coffee Shop">>, amount |-> 450,
     fees |-> 0, baseAmount |-> 450, originalText |-> <<ExpenseLine>>]

\* C14: on the eight-line statement the PayPal definition goes through
\* Header, Header, HeaderData, Header, ActivityHeader, Activity,
\* ExpenseInside, Activity, End, and the parse succeeds with the one expense,
\* no income, accountSuffix '1234' and both statement dates.
C14_PaypalStatementParsed ==
    \A c \in Calls :
        (fmt = FmtPaypal /\ statementLines[c] = PaypalStatement /\ pc[c] # "awaiting") =>
            /\ Visited(c) = SubSeq(PaypalStatementStates, 1, cursor[c] + 1)
            /\ engine[c] \in {"none", "returned"}
            /\ pc[c] = "done" =>
                  LET o == objs[output[c]]
                  IN /\ result[c] = Success(output[c])
                     /\ cursor[c] = 8
                     /\ arrs[o["expenses"].a] = <<CoffeeShop>>
                     /\ arrs[o["incomes"].a] = <<>>
                     /\ o["accountSuffix"] = Str("1234")
                     /\ o["startDate"] = Date("2021-01-01")
                     /\ o["endDate"] = Date("2021-01-31")

\* The parse of the eight-line statement has succeeded.
C14_Witness ==
    /\ fmt = FmtPaypal
    /\ statementLines[1] = PaypalStatement
    /\ Visited(1) = PaypalStatementStates
    /\ pc[1] = "done"
    /\ result[1] = Success(output[1])

\* C15: a pass of the loop leaves the output that was passed to the action
\* as it was: its fields and the contents of its two lists are the same
\* after the action returned.
C15_OutputNotMutated ==
    [][\A c \in Calls :
          (pc[c] = "loop" /\ cursor'[c] = cursor[c] + 1) =>
              LET passed == output[c]
              IN /\ objs'[passed] = objs[passed]
                 /\ arrs'[objs[passed]["incomes"].a] = arrs[objs[passed]["incomes"].a]
                 /\ arrs'[objs[passed]["expenses"].a] = arrs[objs[passed]["expenses"].a]]_vars

\* The line on which call c last left the state Activity.
EntryLine(c) ==
    LET inActivity == SelectSeq(calls[c],
                          LAMBDA i : i.fn = "action" /\ i.state = "activity")
    IN statementLines[c][inActivity[Len(inActivity)].line]

\* C19: when the PayPal machine is in ExpenseInside (IncomeInside) and the
\* action is about to process a non-empty line, the expenses (incomes) list
\* is non-empty and its last element is the transaction made from the line
\* on which the machine entered that state.
C19_ListAgreesWithState ==
    \A c \in Calls :
        ( /\ pc[c] = "loop"
          /\ state[c] \in {"expense-inside", "income-inside"}
          /\ cursor[c] < Len(statementLines[c])
          /\ statementLines[c][cursor[c] + 1] # "" ) =>
            LET o == objs[output[c]]
                list == IF state[c] = "expense-inside"
                        THEN arrs[o["expenses"].a] ELSE arrs[o["incomes"].a]
            IN /\ list # <<>>
               /\ list[Len(list)].originalText[1] = EntryLine(c)

\* The line contains 'you must notify us no later than' in some case.
IsNotify(line) == IncludesMustNotify(ToLowerCase(line))

\* Call c has processed a period-and-account line in HeaderData before line i.
AccountLineBefore(c, i) ==
    \E j \in 1..Len(calls[c]) :
        /\ calls[c][j].fn = "action"
        /\ calls[c][j].state = "header-data"
        /\ calls[c][j].line < i
        /\ HeaderDataMatch(statementLines[c][calls[c][j].line]).matched

\* C20: a line of the PayPal statement that contains the closing notice is
\* the last line consumed and leaves the machine in End, whatever state it
\* was in; when no period-and-account line was processed in HeaderData
\* before it, the engine fails with the incomplete-output error.
C20_NotifyEndsFromEveryState ==
    \A c \in Calls :
        (pc[c] \in {"loop", "check", "validate", "done"}) =>
            /\ \A i \in 1..(cursor[c] - 1) : ~IsNotify(statementLines[c][i])
            /\ (cursor[c] >= 1 /\ IsNotify(statementLines[c][cursor[c]])) =>
                  /\ state[c] = "end"
                  /\ (pc[c] = "done" /\ ~AccountLineBefore(c, cursor[c])) =>
                        /\ engine[c] = "incomplete"
                        /\ result[c] = Failure(IncompleteMessage(objs[output[c]]))

\* -------------------------------------------------------------- sanitizer

\* parsers[parserType]
ParserOf(parserType) == FmtPaypal

\* parser.parseText({textLines, parserOptions, name}): the format's engine
\* run on the lines with the caller's options, the name standing for the
\* file path; it returns the output or throws.
parseText(f, textLines, options, name) == RunAlone(f, name, options, textLines)

\* JSON.parse(JSON.stringify(output)) on an output as plain data: fields
\* whose value is undefined are dropped, dates become strings.
JsonOutput(deep) ==
    [fields |-> [k \in {j \in DOMAIN deep.fields : ~IsUndef(deep.fields[j])} |->
                   JsonValue(deep.fields[k])],
     incomes |-> deep.incomes,
     expenses |-> deep.expenses]

\* The message recorded when neither an output nor an error message exists.
NoOutputMessage ==
    <<"Sanitized parser output is undefined but no error was encountered">>

\* createSanitizedTestFileObject({parserInput, type}) once sanitizePdf has
\* yielded `sanitizedText`: name, parserType, text, and the output of
\* parsing the text with the parser input, or the message of the error.
createSanitizedTestFileObject(input, parserType, sanitizedText) ==
    LET parsed == parseText(ParserOf(parserType), sanitizedText,
                            input.parserOptions, input.name)
    IN IF parsed.kind = "ok"
       THEN [name |-> input.name, parserType |-> parserType,
             text |-> sanitizedText, output |-> parsed.value[1]]
       ELSE [name |-> input.name, parserType |-> parserType,
             text |-> sanitizedText,
             errorMessage |-> IF parsed.message # <<>> THEN parsed.message
                              ELSE NoOutputMessage]

\* JSON.parse of the JSON.stringify that wrote the sample file.
JsonFixture(object) ==
    IF "output" \in DOMAIN object
    THEN [object EXCEPT !["output"] = JsonOutput(@)]
    ELSE object

\* test() of createSanitizedTestInput: the text parsed again with the
\* parserOptions the file holds, undefined when it holds none.
ReParse(testFile) ==
    parseText(ParserOf(testFile.parserType), testFile.text,
              IF "parserOptions" \in DOMAIN testFile THEN testFile.parserOptions
              ELSE Undef,
              testFile.name)

\* The parser inputs a statement is sanitized with.
ParserInputs ==
    {[name |-> "Sanitized sample.json", filePath |-> "a.pdf", parserOptions |-> o] :
        o \in {Undef, [yearPrefix |-> Num(18)]}}

\* The variables of the parse calls, which the sanitizer leaves alone.
parserVars ==
    <<fmt, objs, arrs, active, pc, filePath, inputParserOptions, statementLines,
      cursor, state, parserOptions, output, result, engine, calls, checks, mutated,
      sourceCalls, validated>>

\* writeSanitizedTestFile up to line 126: the statement is sanitized and the
\* fixture object built.
CreateFixture ==
    /\ sanitizedTestObject = Undef
    /\ \E input \in ParserInputs, sanitizedText \in PaypalDocuments :
          /\ parserInput' = input
          /\ sanitizedTestObject' =
                createSanitizedTestFileObject(input, "paypal", sanitizedText)
    /\ UNCHANGED <<parserVars, sampleFile, reParsed>>

\* Lines 134 and 149-151: the object is written as JSON and read back.
WriteAndRead ==
    /\ sanitizedTestObject # Undef
    /\ sampleFile = Undef
    /\ sampleFile' = JsonFixture(sanitizedTestObject)
    /\ UNCHANGED <<parserVars, parserInput, sanitizedTestObject, reParsed>>

\* The test of createSanitizedTestInput runs.
RunTest ==
    /\ sampleFile # Undef
    /\ reParsed = Undef
    /\ reParsed' = ReParse(sampleFile)
    /\ UNCHANGED <<parserVars, parserInput, sanitizedTestObject, sampleFile>>

InitFixture == InitWith({FmtPaypal})

NextFixture == CreateFixture \/ WriteAndRead \/ RunTest

SpecFixture == InitFixture /\ [][NextFixture]_vars

\* C21: a fixture object holds exactly one of output and errorMessage, the
\* output when parsing the sanitized lines returned one and else the
\* message of the error; and the test that parses the fixture's lines again
\* with the fixture's parser options gets the recorded output or error.
C21_FixtureReproduces ==
    /\ sanitizedTestObject # Undef =>
          LET parsed == parseText(ParserOf(sanitizedTestObject.parserType),
                                  sanitizedTestObject.text,
                                  parserInput.parserOptions, parserInput.name)
          IN /\ ("output" \in DOMAIN sanitizedTestObject)
                    # ("errorMessage" \in DOMAIN sanitizedTestObject)
             /\ "output" \in DOMAIN sanitizedTestObject <=> parsed.kind = "ok"
             /\ parsed.kind = "ok" => sanitizedTestObject.output = parsed.value[1]
             /\ parsed.kind # "ok" =>
                   sanitizedTestObject.errorMessage = parsed.message
    /\ reParsed # Undef =>
          IF "output" \in DOMAIN sampleFile
          THEN /\ reParsed.kind = "ok"
               /\ JsonOutput(reParsed.value[1]) = sampleFile.output
          ELSE /\ reParsed.kind = "error"
               /\ reParsed.message = sampleFile.errorMessage
====
